---------------------------- MODULE Spec2Model ----------------------------
(***************************************************************************)
(* Model of the e-commerce data pipeline: the event generator              *)
(* (src/src/event_generator.py) and the batch loader (src/src/loader.py).  *)
(*                                                                         *)
(* A Python dict is a TLA+ record/function whose DOMAIN is its key set.    *)
(* An optional value (the result of dict.get, a nullable column) is a      *)
(* sequence of length 0 (None) or 1 (the value).                           *)
(***************************************************************************)
EXTENDS Integers, Sequences, FiniteSets, TLC

VARIABLES
    dirExists,      \* whether events_dir exists on disk
    dir,            \* the events directory: file name -> document
    strict,         \* whether staging_events enforces uniqueness of event_id
    run,            \* "first" or "second" invocation of load_all_events
    pc,             \* position inside load_all_events
    conn,           \* "none" | "open" | "closed"
    outcome,        \* how the invocation ended: "running" | "returned" | "raised"
    exc,            \* the exception that escaped load_all_events, or "none"
    json_files,     \* local of load_all_events: the listed .json names, in listing order
    fileIdx,        \* position of the for-loop over json_files
    events,         \* local of load_json_file: the deserialized document
    idx,            \* number of records of `events` the for-loop has consumed
    success_count,  \* local of load_json_file
    error_count,    \* local of load_json_file
    total_success,  \* local of load_all_events
    total_errors,   \* local of load_all_events
    pending,        \* rows inserted in the open transaction, not yet committed
    committed,      \* rows durably in staging_events
    trace           \* history of the loader's calls, oldest first

vars == <<dirExists, dir, strict, run, pc, conn, outcome, exc, json_files, fileIdx,
          events, idx, success_count, error_count, total_success, total_errors,
          pending, committed, trace>>

\* Largest number of records in a batch file of the multi-file directories.
MaxRecs == 2

None == <<>>
Some(v) == <<v>>

\* dict.get(key): the value, or None when the key is absent.
get(d, k) == IF k \in DOMAIN d THEN Some(d[k]) ELSE None

(***************************************************************************)
(* Timestamps: datetime values and their ISO-8601 text.                    *)
(***************************************************************************)
DateTimes ==
    { <<2024, 1, 15, 10, 30, 0, 0>>, <<2024, 1, 15, 10, 30, 0, 123456>> }

\* datetime.isoformat(): microseconds are printed only when non-zero.
isoformat(dt) ==
    IF dt = <<2024, 1, 15, 10, 30, 0, 0>> THEN "2024-01-15T10:30:00"
    ELSE "2024-01-15T10:30:00.123456"

\* A lenient parser that yields a null timestamp instead of raising.
fromisoformatLenient(text) ==
    CASE text = "2024-01-15T10:30:00" ->
           [raised |-> "none", value |-> Some(<<2024, 1, 15, 10, 30, 0, 0>>)]
      [] text = "2024-01-15T10:30:00.123456" ->
           [raised |-> "none", value |-> Some(<<2024, 1, 15, 10, 30, 0, 123456>>)]
      [] OTHER -> [raised |-> "none", value |-> None]

\* datetime.fromisoformat(text): the datetime, or ValueError.
fromisoformat(text) ==
    CASE text = "2024-01-15T10:30:00" ->
           [raised |-> "none", value |-> Some(<<2024, 1, 15, 10, 30, 0, 0>>)]
      [] text = "2024-01-15T10:30:00.123456" ->
           [raised |-> "none", value |-> Some(<<2024, 1, 15, 10, 30, 0, 123456>>)]
      [] OTHER -> [raised |-> "ValueError", value |-> None]

(***************************************************************************)
(* Event generator.  Every random draw is a parameter.                     *)
(***************************************************************************)
generate_page_view(event_id, user_id, session_id, now, page_url, device, browser) ==
    [event_type |-> "page_view", event_id |-> event_id, user_id |-> user_id,
     session_id |-> session_id, timestamp |-> isoformat(now),
     page_url |-> page_url, device |-> device, browser |-> browser]

generate_add_to_cart(event_id, user_id, session_id, now, product_id, product_name, price, quantity) ==
    [event_type |-> "add_to_cart", event_id |-> event_id, user_id |-> user_id,
     session_id |-> session_id, timestamp |-> isoformat(now),
     product_id |-> product_id, product_name |-> product_name,
     price |-> price, quantity |-> quantity]

RECURSIVE sum(_)
\* sum() of a list of amounts; amounts are in cents, so rounding to 2 digits is exact.
sum(items) == IF items = <<>> THEN 0 ELSE Head(items) + sum(Tail(items))

\* `items` are the num_items line-item amounts drawn by the list comprehension.
generate_purchase(event_id, order_id, user_id, now, items, payment_method, address) ==
    [event_type |-> "purchase", event_id |-> event_id, order_id |-> order_id,
     user_id |-> user_id, timestamp |-> isoformat(now),
     total_amount |-> sum(items), items_count |-> Len(items),
     payment_method |-> payment_method, shipping_address |-> address]

generate_product_review(event_id, user_id, product_id, now, rating, review_text, verified_purchase) ==
    [event_type |-> "product_review", event_id |-> event_id, user_id |-> user_id,
     product_id |-> product_id, timestamp |-> isoformat(now),
     rating |-> rating, review_text |-> review_text,
     verified_purchase |-> verified_purchase]

Address == [city |-> "Springfield", state |-> "IL", zip |-> "62704"]

\* Events the generator can produce, over small draws of each random field.
GenEvents ==
    { generate_page_view("e1", 1000, "s1", now, "/products/books/index", device, browser) :
        now \in DateTimes, device \in {"mobile", "desktop", "tablet"},
        browser \in {"Chrome", "Firefox", "Safari", "Edge"} }
    \cup
    { generate_add_to_cart("e1", 9999, "s1", now, 100, "Widget", price, quantity) :
        now \in DateTimes, price \in {1001, 49999}, quantity \in 1..3 }
    \cup
    { generate_purchase("e1", "o1", 1000, now, items, payment_method, Address) :
        now \in DateTimes,
        items \in {<<1000>>, <<1999, 20000>>, <<1000, 1000, 1000, 1000, 1000>>},
        payment_method \in {"credit_card", "paypal", "debit_card", "apple_pay"} }
    \cup
    { generate_product_review("e1", 1000, 999, now, rating, "Great product.", verified) :
        now \in DateTimes, rating \in 1..5, verified \in BOOLEAN }


(***************************************************************************)
(* Batch files and the events directory.                                   *)
(***************************************************************************)
\* A hand-edited record whose timestamp text is not ISO-8601.
BadTimestamp ==
    [generate_add_to_cart("e3", 1000, "s3", <<2024, 1, 15, 10, 30, 0, 0>>, 100, "Widget",
                          1001, 1) EXCEPT !.timestamp = "not-a-date"]

\* Records of the multi-file directories: two valid events and a malformed one.
RecPool ==
    { generate_page_view("e1", 1000, "s1", <<2024, 1, 15, 10, 30, 0, 0>>,
                         "/products/books/index", "mobile", "Chrome"),
      generate_purchase("e2", "o2", 9999, <<2024, 1, 15, 10, 30, 0, 123456>>,
                        <<1999, 20000>>, "paypal", Address),
      BadTimestamp }

SeqsUpTo(S, n) == UNION { [1..k -> S] : k \in 0..n }

\* What json.load finds in a file: a list of objects, or text that is not JSON.
NotJson == [wellFormed |-> FALSE, records |-> <<>>]
Document(records) == [wellFormed |-> TRUE, records |-> records]

Docs == {NotJson} \cup { Document(r) : r \in SeqsUpTo(RecPool, MaxRecs) }

\* File names; `n` gives the order in which the names sort.
JsonNames == { [n |-> 1, ext |-> ".json"], [n |-> 2, ext |-> ".json"] }
OtherName == [n |-> 3, ext |-> ".txt"]
NoFile == [n |-> 0, ext |-> ""]

\* str.endswith
endswith(name, suffix) == name.ext = suffix

\* Directories: any batch files under the .json names, with or without a stray
\* non-JSON file; and single-file directories holding one generated event.
Dirs ==
    UNION { { [f \in S \cup O |-> IF f = OtherName THEN NotJson ELSE d[f]] :
                d \in [S -> Docs] } :
            S \in SUBSET JsonNames, O \in {{}, {OtherName}} }
    \cup
    { [f \in {[n |-> 1, ext |-> ".json"]} |-> Document(<<e>>)] : e \in GenEvents }

\* os.listdir returns the entries in arbitrary order.
Listings(S) ==
    { s \in [1..Cardinality(S) -> S] : \A i, j \in DOMAIN s : i # j => s[i] # s[j] }

(***************************************************************************)
(* The staging store.                                                      *)
(***************************************************************************)
\* cursor.execute of the INSERT against the rows visible to the transaction:
\* "none", or the error the store raises.  The table is not created by loader.py;
\* a strict store rejects a second row with the same event_id (section 6 of the
\* specification), a lax one accepts every row.
execute(visible, row) ==
    IF strict /\ \E i \in DOMAIN visible : visible[i].event_id = row.event_id
    THEN "IntegrityError"
    ELSE "none"

\* A connection opened with autocommit=True.
AutocommitOn == TRUE

\* pymysql.connect is called without autocommit, which defaults to off.
Autocommit == FALSE

(***************************************************************************)
(* loader.py                                                               *)
(***************************************************************************)
\* An except clause that re-raises the connection failure.
get_db_connectionRaises(up) == IF up THEN "connection" ELSE "ConnectionError"

\* get_db_connection: the connection, or None when pymysql.connect raises.
get_db_connection(up) == IF up THEN "connection" ELSE "None"

\* The values tuple that reads the shipping fields from the event itself.
valuesFlat(event, timestamp) ==
    [event_id |-> get(event, "event_id"), event_type |-> get(event, "event_type"),
     user_id |-> get(event, "user_id"), session_id |-> get(event, "session_id"),
     timestamp |-> timestamp,
     page_url |-> get(event, "page_url"), device |-> get(event, "device"),
     browser |-> get(event, "browser"),
     product_id |-> get(event, "product_id"), product_name |-> get(event, "product_name"),
     price |-> get(event, "price"), quantity |-> get(event, "quantity"),
     order_id |-> get(event, "order_id"), total_amount |-> get(event, "total_amount"),
     items_count |-> get(event, "items_count"),
     payment_method |-> get(event, "payment_method"),
     shipping_city |-> get(event, "city"), shipping_state |-> get(event, "state"),
     shipping_zip |-> get(event, "zip"),
     rating |-> get(event, "rating"), review_text |-> get(event, "review_text"),
     verified_purchase |-> get(event, "verified_purchase")]

\* The values tuple of insert_event, one field per column of staging_events.
values(event, timestamp) ==
    LET shipping == IF "shipping_address" \in DOMAIN event
                    THEN event.shipping_address ELSE <<>>
    IN
    [event_id |-> get(event, "event_id"), event_type |-> get(event, "event_type"),
     user_id |-> get(event, "user_id"), session_id |-> get(event, "session_id"),
     timestamp |-> timestamp,
     page_url |-> get(event, "page_url"), device |-> get(event, "device"),
     browser |-> get(event, "browser"),
     product_id |-> get(event, "product_id"), product_name |-> get(event, "product_name"),
     price |-> get(event, "price"), quantity |-> get(event, "quantity"),
     order_id |-> get(event, "order_id"), total_amount |-> get(event, "total_amount"),
     items_count |-> get(event, "items_count"),
     payment_method |-> get(event, "payment_method"),
     shipping_city |-> get(shipping, "city"), shipping_state |-> get(shipping, "state"),
     shipping_zip |-> get(shipping, "zip"),
     rating |-> get(event, "rating"), review_text |-> get(event, "review_text"),
     verified_purchase |-> get(event, "verified_purchase")]

\* insert_event with an INSERT IGNORE statement: a row the store rejects is
\* dropped without an error.
insert_eventIgnore(visible, event) ==
    LET ts == IF "timestamp" \in DOMAIN event
              THEN fromisoformat(event.timestamp)
              ELSE [raised |-> "KeyError", value |-> None]
    IN
    IF ts.raised # "none" THEN [raised |-> ts.raised, row |-> None]
    ELSE LET row == values(event, ts.value)
             err == execute(visible, row)
         IN  IF err = "none" THEN [raised |-> "none", row |-> Some(row)]
             ELSE [raised |-> "none", row |-> None]

\* insert_event(cursor, event): the exception it raises ("none" when it returns)
\* and the row it inserted.
insert_event(visible, event) ==
    LET ts == IF "timestamp" \in DOMAIN event
              THEN fromisoformat(event.timestamp)
              ELSE [raised |-> "KeyError", value |-> None]
    IN
    IF ts.raised # "none" THEN [raised |-> ts.raised, row |-> None]
    ELSE LET row == values(event, ts.value)
             err == execute(visible, row)
         IN  IF err = "none" THEN [raised |-> "none", row |-> Some(row)]
             ELSE [raised |-> err, row |-> None]

\* Exception classes: those derived from Exception, and KeyboardInterrupt, which
\* derives from BaseException only.
ExceptionClasses == {"ValueError", "KeyError", "IntegrityError"}

\* A handler that catches database errors only.
CaughtDbOnly(e) == e = "IntegrityError"

\* `except Exception` around insert_event.
Caught(e) == e \in ExceptionClasses

\* A loop that is left after its first record.
LoopDoneEarly(i, n) == i = n \/ i >= 1

\* The for-loop over the records of a file is exhausted.
LoopDone(i, n) == i = n

\* A loop that walks json_files from the back.
CurrentFileReversed(files, i) == files[Len(files) + 1 - i]

\* The file the for-loop over json_files is at.
CurrentFile(files, i) == files[i]

Entry(op, file, i, res) == [op |-> op, run |-> run, file |-> file, idx |-> i, res |-> res]

(***************************************************************************)
(* State machine: the operator runs load_all_events, and may run it again  *)
(* after it returned.                                                      *)
(***************************************************************************)
Init ==
    /\ dirExists \in BOOLEAN
    /\ dir \in IF dirExists THEN Dirs ELSE {<<>>}
    /\ strict \in BOOLEAN
    /\ run = "first"
    /\ pc = "connect"
    /\ conn = "none"
    /\ outcome = "running"
    /\ exc = "none"
    /\ json_files = <<>>
    /\ fileIdx = 0
    /\ events = <<>>
    /\ idx = 0
    /\ success_count = 0
    /\ error_count = 0
    /\ total_success = 0
    /\ total_errors = 0
    /\ pending = <<>>
    /\ committed = <<>>
    /\ trace = <<>>

\* An exception leaves load_all_events: nothing after the raising line runs.
Raise(e) ==
    /\ pc' = "done"
    /\ outcome' = "raised"
    /\ exc' = e

\* load_all_events returns.
Return ==
    /\ pc' = "done"
    /\ outcome' = "returned"
    /\ exc' = "none"

\* connection = get_db_connection(); if not connection: return
Connect ==
    /\ pc = "connect"
    /\ \E up \in BOOLEAN :
         LET connection == get_db_connection(up) IN
         CASE connection = "connection" ->
                /\ conn' = "open"
                /\ pc' = "listdir"
                /\ UNCHANGED <<outcome, exc>>
           [] connection = "None" ->
                /\ Return
                /\ UNCHANGED conn
           [] OTHER ->
                /\ Raise(connection)
                /\ UNCHANGED conn
    /\ UNCHANGED <<dirExists, dir, strict, run, json_files, fileIdx, events, idx,
                   success_count, error_count, total_success, total_errors,
                   pending, committed, trace>>

\* json_files = [f for f in os.listdir(events_dir) if f.endswith('.json')],
\* the empty-list return, and the initialisation of the totals.
ListFiles ==
    /\ pc = "listdir"
    /\ IF ~dirExists
       THEN /\ Raise("FileNotFoundError")
            /\ UNCHANGED <<conn, json_files, fileIdx, total_success, total_errors>>
       ELSE \E listing \in Listings(DOMAIN dir) :
              LET found == SelectSeq(listing, LAMBDA f : endswith(f, ".json")) IN
              /\ json_files' = found
              /\ IF found = <<>>
                 THEN /\ conn' = "closed"
                      /\ Return
                      /\ UNCHANGED <<fileIdx, total_success, total_errors>>
                 ELSE /\ total_success' = 0
                      /\ total_errors' = 0
                      /\ fileIdx' = 1
                      /\ pc' = "open"
                      /\ UNCHANGED <<conn, outcome, exc>>
    /\ trace' = Append(trace, Entry("listdir", NoFile, 0, "none"))
    /\ UNCHANGED <<dirExists, dir, strict, run, events, idx, success_count, error_count,
                   pending, committed>>

\* load_json_file up to the for-loop: open, json.load, cursor, the two counters.
OpenFile ==
    /\ pc = "open"
    /\ LET f == CurrentFile(json_files, fileIdx) IN
       /\ trace' = Append(trace, Entry("open", f, 0, "none"))
       /\ IF dir[f].wellFormed
          THEN /\ events' = dir[f].records
               /\ idx' = 0
               /\ success_count' = 0
               /\ error_count' = 0
               /\ pc' = "records"
               /\ UNCHANGED <<outcome, exc>>
          ELSE /\ Raise("JSONDecodeError")
               /\ UNCHANGED <<events, idx, success_count, error_count>>
    /\ UNCHANGED <<dirExists, dir, strict, run, conn, json_files, fileIdx,
                   total_success, total_errors, pending, committed>>

\* One iteration of the for-loop over the records: the try block and its handler.
\* The process may be interrupted (KeyboardInterrupt) while the try block runs;
\* the rows of the open transaction are then never committed.
InsertRecord ==
    /\ pc = "records"
    /\ ~LoopDone(idx, Len(events))
    /\ \E interrupted \in BOOLEAN :
         LET f == CurrentFile(json_files, fileIdx)
             event == events[idx + 1]
             r == IF interrupted
                  THEN [raised |-> "KeyboardInterrupt", row |-> None]
                  ELSE insert_event(committed \o pending, event)
         IN
         IF r.raised = "none"
         THEN /\ IF Autocommit
                 THEN committed' = committed \o r.row /\ UNCHANGED pending
                 ELSE pending' = pending \o r.row /\ UNCHANGED committed
              /\ success_count' = success_count + 1
              /\ idx' = idx + 1
              /\ trace' = Append(trace, Entry("attempt", f, idx + 1, "ok"))
              /\ UNCHANGED <<pc, outcome, exc, error_count>>
         ELSE IF Caught(r.raised)
         THEN /\ error_count' = error_count + 1
              /\ idx' = idx + 1
              /\ trace' = Append(trace, Entry("attempt", f, idx + 1, r.raised))
              /\ UNCHANGED <<pc, outcome, exc, success_count, pending, committed>>
         ELSE /\ Raise(r.raised)
              /\ trace' = Append(trace, Entry("escape", f, idx + 1, r.raised))
              /\ UNCHANGED <<idx, success_count, error_count, pending, committed>>
    /\ UNCHANGED <<dirExists, dir, strict, run, conn, json_files, fileIdx, events,
                   total_success, total_errors>>

\* connection.commit() after the loop, and the return of the two counters.
Commit ==
    /\ pc = "records"
    /\ LoopDone(idx, Len(events))
    /\ committed' = committed \o pending
    /\ pending' = <<>>
    /\ trace' = Append(trace, Entry("commit", CurrentFile(json_files, fileIdx), idx, "none"))
    /\ pc' = "file_done"
    /\ UNCHANGED <<dirExists, dir, strict, run, conn, outcome, exc, json_files, fileIdx,
                   events, idx, success_count, error_count, total_success, total_errors>>

\* success, errors = load_json_file(...); the totals; the next file of the loop.
NextFile ==
    /\ pc = "file_done"
    /\ total_success' = total_success + success_count
    /\ total_errors' = total_errors + error_count
    /\ IF fileIdx < Len(json_files)
       THEN fileIdx' = fileIdx + 1 /\ pc' = "open"
       ELSE pc' = "close" /\ UNCHANGED fileIdx
    /\ UNCHANGED <<dirExists, dir, strict, run, conn, outcome, exc, json_files,
                   events, idx, success_count, error_count, pending, committed, trace>>

\* connection.close() after the loop over the files, and the summary.
Close ==
    /\ pc = "close"
    /\ conn' = "closed"
    /\ Return
    /\ UNCHANGED <<dirExists, dir, strict, run, json_files, fileIdx, events, idx,
                   success_count, error_count, total_success, total_errors,
                   pending, committed, trace>>

\* main() is run a second time, in a new process, over the same directory.
Rerun ==
    /\ pc = "done"
    /\ outcome = "returned"
    /\ run = "first"
    /\ run' = "second"
    /\ pc' = "connect"
    /\ conn' = "none"
    /\ outcome' = "running"
    /\ exc' = "none"
    /\ json_files' = <<>>
    /\ fileIdx' = 0
    /\ events' = <<>>
    /\ idx' = 0
    /\ success_count' = 0
    /\ error_count' = 0
    /\ total_success' = 0
    /\ total_errors' = 0
    /\ pending' = <<>>
    /\ UNCHANGED <<dirExists, dir, strict, committed, trace>>

Next ==
    \/ Connect
    \/ ListFiles
    \/ OpenFile
    \/ InsertRecord
    \/ Commit
    \/ NextFile
    \/ Close
    \/ Rerun

Spec == Init /\ [][Next]_vars

(***************************************************************************)
(* Vocabulary of the properties.                                           *)
(***************************************************************************)
\* The entries of the history with operation `op`, of invocation r, about file f.
EntriesOf(op, r, f) ==
    SelectSeq(trace, LAMBDA e : e.op = op /\ e.run = r /\ e.file = f)

HasCommit(r, f) == EntriesOf("commit", r, f) # <<>>

\* The position of file f in a listing (0 when it is not listed).
PositionIn(files, f) ==
    IF \E i \in DOMAIN files : files[i] = f
    THEN CHOOSE i \in DOMAIN files : files[i] = f
    ELSE 0

\* The record an "attempt" entry is about.
RecordOf(e) == dir[e.file].records[e.idx]

\* The batch files of the directory.
BatchFiles == { f \in DOMAIN dir : endswith(f, ".json") }

\* load_all_events did not get a connection and has ended.
ConnectFailed == pc = "done" /\ conn = "none"

\* An ISO-8601 text: one that isoformat writes.
IsIso(text) == \E dt \in DateTimes : isoformat(dt) = text

Columns ==
    {"event_id", "event_type", "user_id", "session_id", "timestamp",
     "page_url", "device", "browser",
     "product_id", "product_name", "price", "quantity",
     "order_id", "total_amount", "items_count", "payment_method",
     "shipping_city", "shipping_state", "shipping_zip",
     "rating", "review_text", "verified_purchase"}

\* The columns each variant defines (section 3 of the specification).
Applicable(event_type) ==
    {"event_id", "event_type", "user_id", "timestamp"} \cup
    CASE event_type = "page_view" -> {"session_id", "page_url", "device", "browser"}
      [] event_type = "add_to_cart" ->
           {"session_id", "product_id", "product_name", "price", "quantity"}
      [] event_type = "purchase" ->
           {"order_id", "total_amount", "items_count", "payment_method",
            "shipping_city", "shipping_state", "shipping_zip"}
      [] event_type = "product_review" ->
           {"product_id", "rating", "review_text", "verified_purchase"}

\* The staging row the specification prescribes for an event with an ISO timestamp.
ExpectedRow(event) ==
    [c \in Columns |->
        IF c \notin Applicable(event.event_type) THEN None
        ELSE CASE c = "timestamp" ->
                    Some(CHOOSE dt \in DateTimes : isoformat(dt) = event.timestamp)
               [] c = "shipping_city" -> Some(event.shipping_address.city)
               [] c = "shipping_state" -> Some(event.shipping_address.state)
               [] c = "shipping_zip" -> Some(event.shipping_address.zip)
               [] OTHER -> Some(event[c])]

RECURSIVE ValidRows(_)
\* The prescribed rows of the records of a file that have an ISO timestamp, in order.
ValidRows(records) ==
    IF records = <<>> THEN <<>>
    ELSE (IF IsIso(Head(records).timestamp) THEN <<ExpectedRow(Head(records))>> ELSE <<>>)
         \o ValidRows(Tail(records))

RECURSIVE LoadedRows(_)
\* The prescribed rows of every file a history has committed, in commit order.
LoadedRows(t) ==
    IF t = <<>> THEN <<>>
    ELSE (IF Head(t).op = "commit" THEN ValidRows(dir[Head(t).file].records) ELSE <<>>)
         \o LoadedRows(Tail(t))

\* The rows a history accepted in files that it went on to commit, in order.
CommittedRowsOf(t) ==
    LET done(r, f) == \E i \in DOMAIN t :
                        t[i].op = "commit" /\ t[i].run = r /\ t[i].file = f
        ok == SelectSeq(t, LAMBDA e : e.op = "attempt" /\ e.res = "ok" /\ done(e.run, e.file))
    IN  [k \in 1..Len(ok) |-> ExpectedRow(RecordOf(ok[k]))]

\* The store rejected no row so far.
StoreAcceptedAll == \A i \in DOMAIN trace : trace[i].res # "IntegrityError"

DistinctIds(records) ==
    \A i, j \in DOMAIN records : i # j => records[i].event_id # records[j].event_id

(***************************************************************************)
(* Properties.                                                             *)
(***************************************************************************)
\* C1: load_json_file attempts every record of a well-formed file in file order
\* whatever the earlier records did, no record-level error escapes it, and the
\* tallies it returns add up to the number of records.
C1_EveryRecordAttempted ==
    /\ exc \notin ExceptionClasses
    /\ pc \in {"records", "file_done"} =>
         LET f == CurrentFile(json_files, fileIdx)
             attempts == EntriesOf("attempt", run, f)
         IN  /\ success_count + error_count = idx
             /\ Len(attempts) = idx
             /\ \A k \in DOMAIN attempts : attempts[k].idx = k
             /\ pc = "file_done" => success_count + error_count = Len(dir[f].records)

\* A two-record file whose first record failed and whose second was inserted.
C1_Witness ==
    /\ pc = "file_done"
    /\ Len(events) = 2
    /\ error_count = 1
    /\ success_count = 1
    /\ LET attempts == EntriesOf("attempt", run, CurrentFile(json_files, fileIdx))
       IN  attempts[1].res = "ValueError" /\ attempts[2].res = "ok"

\* C2: a batch file that is not well-formed aborts that file only: every other
\* batch file of the directory is still loaded and counted in the totals.
C2_FileIsolation ==
    (pc = "done" /\ conn # "none" /\ dirExists /\ exc # "KeyboardInterrupt") =>
        \A f \in BatchFiles : dir[f].wellFormed => HasCommit(run, f)

\* C3: whenever load_all_events has obtained a connection, the connection is
\* closed by the time load_all_events ends.
C3_ConnectionReleased ==
    (pc = "done" /\ conn # "none") => conn = "closed"

\* C4 (as stated): a connection that cannot be established makes load_all_events
\* fail with a ConnectionError that reaches its caller.
C4_ConnectionErrorPropagates ==
    ConnectFailed => (outcome = "raised" /\ exc = "ConnectionError")

\* C4 (amended): a connection that cannot be established makes load_all_events
\* return to its caller without raising, before any file is listed, opened or loaded.
C4_ConnectFailureReturns ==
    ConnectFailed =>
        /\ outcome = "returned"
        /\ exc = "none"
        /\ json_files = <<>>
        /\ \A i \in DOMAIN trace : trace[i].run # run
        /\ pending = <<>>

\* The first invocation ended without a connection, over a directory with a batch file.
C4_Witness ==
    ConnectFailed /\ run = "first" /\ BatchFiles # {}

\* C5: load_json_file commits exactly once per file, and only after the insert of
\* every record of the file has been attempted.
C5_OneCommitPerFile ==
    /\ \A p \in DOMAIN trace :
         trace[p].op = "commit" =>
            LET r == trace[p].run
                f == trace[p].file
                before == { q \in 1..(p - 1) : /\ trace[q].op = "attempt"
                                               /\ trace[q].run = r
                                               /\ trace[q].file = f }
            IN  /\ Cardinality(before) = Len(dir[f].records)
                /\ \A q \in DOMAIN trace :
                     (q > p /\ trace[q].run = r /\ trace[q].file = f) =>
                        trace[q].op \notin {"attempt", "commit"}
    /\ pc = "file_done" =>
         Len(EntriesOf("commit", run, CurrentFile(json_files, fileIdx))) = 1
    /\ pc = "records" =>
         Len(EntriesOf("commit", run, CurrentFile(json_files, fileIdx))) = 0

\* A two-record file has been committed.
C5_Witness ==
    /\ pc = "file_done"
    /\ Len(events) = 2
    /\ trace[Len(trace)].op = "commit"
    /\ trace[Len(trace) - 1].op = "attempt"

\* C6: the committed store holds exactly the accepted rows of the files that were
\* fully processed and committed; when an invocation is cut short inside file k,
\* none of file k's rows is committed and the earlier files' rows all are.
C6_CommittedFilesOnly ==
    committed = CommittedRowsOf(trace)

\* Interrupted inside the second file, after one of its rows was accepted, with
\* the first file's rows committed.
C6_Witness ==
    /\ outcome = "raised"
    /\ exc = "KeyboardInterrupt"
    /\ fileIdx = 2
    /\ pending # <<>>
    /\ committed # <<>>

\* C7 (as stated): the batch files are loaded in filename order.
C7_FilenameOrder ==
    \A p, q \in DOMAIN trace :
        ( /\ trace[p].run = trace[q].run
          /\ trace[p].op \in {"open", "attempt", "commit"}
          /\ trace[q].op \in {"open", "attempt", "commit"}
          /\ trace[p].file.n < trace[q].file.n ) => p < q

\* C7 (amended): the batch files are loaded one after the other in the order in
\* which os.listdir listed them: every record of an earlier-listed file is attempted,
\* and the file committed, before a later-listed file is opened.
C7_ListingOrder ==
    LET steps == SelectSeq(trace, LAMBDA e : /\ e.run = run
                                             /\ e.op \in {"open", "attempt", "commit"})
        listed == [i \in DOMAIN steps |-> PositionIn(json_files, steps[i].file)]
    IN  /\ \A i \in DOMAIN steps : listed[i] \in 1..fileIdx
        /\ \A i \in 1..(Len(steps) - 1) :
             /\ listed[i] <= listed[i + 1]
             /\ listed[i] < listed[i + 1] =>
                  (steps[i].op = "commit" /\ steps[i + 1].op = "open")

\* Two batch files, listed against their filename order, both loaded.
C7_Witness ==
    /\ pc = "done"
    /\ outcome = "returned"
    /\ Len(json_files) = 2
    /\ json_files[1].n > json_files[2].n
    /\ \A i \in {1, 2} : EntriesOf("attempt", run, json_files[i]) # <<>>

\* C8: when the store accepts every row, a file of N records of which k have an
\* unparseable timestamp is loaded with success_count = N - k and error_count = k,
\* and after the commit the store holds exactly the rows of the valid records.
C8_MalformedRecordsCounted ==
    (pc = "file_done" /\ StoreAcceptedAll) =>
        LET records == dir[CurrentFile(json_files, fileIdx)].records
            valid == ValidRows(records)
        IN  /\ success_count = Len(valid)
            /\ error_count = Len(records) - Len(valid)
            /\ committed = LoadedRows(trace)

\* One malformed record among two: (1, 1), and the valid row is committed.
C8_Witness ==
    /\ pc = "file_done"
    /\ StoreAcceptedAll
    /\ Len(events) = 2
    /\ success_count = 1
    /\ error_count = 1
    /\ committed # <<>>

\* C9: against a store that enforces uniqueness of event_id, the second load of a
\* file of pairwise distinct event_ids completes without aborting, with
\* error_count = len(batch) and success_count = 0, and leaves the stored rows as
\* the first load left them.
C9_SecondLoadAllFail ==
    (strict /\ run = "second") =>
        /\ exc \notin ExceptionClasses
        /\ LET f == CurrentFile(json_files, fileIdx) IN
           (pc = "file_done" /\ HasCommit("first", f) /\ DistinctIds(dir[f].records)) =>
              /\ error_count = Len(dir[f].records)
              /\ success_count = 0
              /\ pending = <<>>
              /\ committed =
                   CommittedRowsOf(SelectSeq(trace, LAMBDA e : e.run = "first"))

\* The second load of a file of two valid records with distinct ids has completed.
C9_Witness ==
    /\ strict
    /\ run = "second"
    /\ pc = "file_done"
    /\ HasCommit("first", CurrentFile(json_files, fileIdx))
    /\ Len(events) = 2
    /\ DistinctIds(events)
    /\ \A i \in DOMAIN events : IsIso(events[i].timestamp)
    /\ Len(committed) = 2

\* C10: for every event of the four variants with a parseable timestamp,
\* insert_event does not fail to map it and builds the row in which every column
\* the variant does not define is null and every defined field is copied
\* unchanged, the shipping columns from the nested address of a purchase only.
C10_RowMapping ==
    LET ok == SelectSeq(trace, LAMBDA e : e.op = "attempt" /\ e.res = "ok")
        rows == committed \o pending
    IN  /\ Len(rows) = Len(ok)
        /\ \A k \in DOMAIN ok : rows[k] = ExpectedRow(RecordOf(ok[k]))
        /\ \A i \in DOMAIN trace :
             (trace[i].op = "attempt" /\ IsIso(RecordOf(trace[i]).timestamp)) =>
                trace[i].res \in {"ok", "IntegrityError"}

\* A purchase has been mapped: its shipping columns are set, its page_url is null.
C10_Witness ==
    \E k \in DOMAIN committed :
        /\ committed[k].event_type = Some("purchase")
        /\ committed[k].shipping_city = Some("Springfield")
        /\ committed[k].total_amount = Some(21999)
        /\ committed[k].items_count = Some(2)
        /\ committed[k].page_url = None

=============================================================================
